---------------------------- MODULE Spec2Model ----------------------------
(***************************************************************************)
(* A model of mini-grep (src/src/lib.rs): Config::build, run, search and   *)
(* search_case_insensitive.                                                *)
(*                                                                         *)
(* Text is a sequence of characters.  A character is written as a short    *)
(* string: "a" and "A" are the ASCII letters, "Sigma" is U+03A3 (GREEK     *)
(* CAPITAL LETTER SIGMA), "sigma" is U+03C3, "fsigma" is U+03C2 (GREEK     *)
(* SMALL LETTER FINAL SIGMA), "LF" is U+000A, "CR" is U+000D and "." is    *)
(* U+002E.  Rust indexes from 0, this module from 1: args[1] of the        *)
(* source is args[2] here.                                                 *)
(***************************************************************************)
EXTENDS Naturals, Sequences, FiniteSets

\* ------------------------------------------------------------------------
\* Bounds of the model

\* longest contents handed to the matcher
MaxTextLen == 3

\* longest query handed to the matcher
MaxQueryLen == 2

\* most arguments of the process, the program's name included
MaxArgs == 4

\* ------------------------------------------------------------------------
\* Characters and strings

LF == "LF"

CR == "CR"

\* the characters contents are drawn from
TextAlphabet == {"a", "A", "Sigma", ".", LF, CR}

\* the characters queries are drawn from
QueryAlphabet == {"a", "A", "Sigma", LF, CR}

\* all strings over alphabet S of length at most n
StringsUpTo(S, n) == UNION {[1..k -> S] : k \in 0..n}

\* s without its first n characters
Drop(s, n) == SubSeq(s, n + 1, Len(s))

\* s reversed (Chars::rev)
Reverse(s) == [i \in 1..Len(s) |-> s[Len(s) + 1 - i]]

\* ------------------------------------------------------------------------
\* The standard-library text operations the matcher calls

\* str::contains(needle): needle occurs in haystack as a contiguous run
Contains(haystack, needle) ==
    \E i \in 1..(Len(haystack) + 1) :
        /\ i + Len(needle) - 1 <= Len(haystack)
        /\ SubSeq(haystack, i, i + Len(needle) - 1) = needle

\* index of the first LF of s, 0 when there is none
FirstLF(s) ==
    IF \E i \in 1..Len(s) : s[i] = LF
    THEN CHOOSE i \in 1..Len(s) : s[i] = LF /\ \A j \in 1..(i - 1) : s[j] # LF
    ELSE 0

\* str::split_inclusive('\n'): the pieces of s, each ending with its LF,
\* the last one possibly without; the empty string has no piece
RECURSIVE SplitInclusive(_)
SplitInclusive(s) ==
    IF s = <<>> THEN <<>>
    ELSE IF FirstLF(s) = 0 THEN <<s>>
    ELSE <<SubSeq(s, 1, FirstLF(s))>> \o SplitInclusive(Drop(s, FirstLF(s)))

\* str::strip_suffix(c): an Option, <<t>> when s is t followed by c and <<>>
\* (None) when s does not end with c
StripSuffix(s, c) ==
    IF Len(s) > 0 /\ s[Len(s)] = c THEN <<SubSeq(s, 1, Len(s) - 1)>> ELSE <<>>

\* mutant of LinesMap: only the LF is stripped, a CR before it stays
LinesMap_keeps_cr(piece) ==
    IF StripSuffix(piece, LF) = <<>> THEN piece ELSE StripSuffix(piece, LF)[1]

\* the closure str::lines maps over the pieces: strip the LF, and then a CR
\* only when an LF was stripped
LinesMap(piece) ==
    IF StripSuffix(piece, LF) = <<>> THEN piece
    ELSE IF StripSuffix(StripSuffix(piece, LF)[1], CR) = <<>>
         THEN StripSuffix(piece, LF)[1]
         ELSE StripSuffix(StripSuffix(piece, LF)[1], CR)[1]

\* str::lines (a CR that ends contents with no LF after it stays in the
\* last line)
Lines(s) == [i \in 1..Len(SplitInclusive(s)) |-> LinesMap(SplitInclusive(s)[i])]

\* core::unicode::Cased on the model's characters
Cased(c) == c \in {"a", "A", "Sigma", "sigma", "fsigma"}

\* core::unicode::Case_Ignorable on the model's characters
Case_Ignorable(c) == c \in {"."}

\* unicode::conversions::to_lower for every character but U+03A3
to_lower(c) ==
    CASE c = "A" -> "a"
      [] c = "Sigma" -> "sigma"
      [] OTHER -> c

\* iter.skip_while(Case_Ignorable).next() is a cased character
RECURSIVE case_ignorable_then_cased(_)
case_ignorable_then_cased(s) ==
    IF s = <<>> THEN FALSE
    ELSE IF Case_Ignorable(Head(s)) THEN case_ignorable_then_cased(Tail(s))
    ELSE Cased(Head(s))

\* U+03A3 at index i of from lowercases to the final sigma at the end of a
\* word and to the plain small sigma elsewhere
map_uppercase_sigma(from, i) ==
    IF /\ case_ignorable_then_cased(Reverse(SubSeq(from, 1, i - 1)))
       /\ ~case_ignorable_then_cased(Drop(from, i))
    THEN "fsigma"
    ELSE "sigma"

\* str::to_lowercase
to_lowercase(s) ==
    [i \in 1..Len(s) |->
        IF s[i] = "Sigma" THEN map_uppercase_sigma(s, i) ELSE to_lower(s[i])]

\* ------------------------------------------------------------------------
\* The line matcher

\* mutant of search_loop: a match is put in front of the earlier ones
RECURSIVE search_loop_prepends(_, _, _)
search_loop_prepends(query, lines, matches) ==
    IF lines = <<>> THEN matches
    ELSE IF Contains(Head(lines), query)
         THEN search_loop_prepends(query, Tail(lines), <<Head(lines)>> \o matches)
         ELSE search_loop_prepends(query, Tail(lines), matches)

\* the loop of search over the remaining lines
RECURSIVE search_loop(_, _, _)
search_loop(query, lines, matches) ==
    IF lines = <<>> THEN matches
    ELSE IF Contains(Head(lines), query)
         THEN search_loop(query, Tail(lines), Append(matches, Head(lines)))
         ELSE search_loop(query, Tail(lines), matches)

\* search(query, contents)
search(query, contents) == search_loop(query, Lines(contents), <<>>)

\* mutant of search_ci_loop: an empty query matches no line
RECURSIVE search_ci_loop_skips_empty_query(_, _, _)
search_ci_loop_skips_empty_query(query, lines, matches) ==
    IF lines = <<>> THEN matches
    ELSE IF query # <<>> /\ Contains(to_lowercase(Head(lines)), to_lowercase(query))
         THEN search_ci_loop_skips_empty_query(query, Tail(lines),
                                               Append(matches, Head(lines)))
         ELSE search_ci_loop_skips_empty_query(query, Tail(lines), matches)

\* the loop of search_case_insensitive over the remaining lines
RECURSIVE search_ci_loop(_, _, _)
search_ci_loop(query, lines, matches) ==
    IF lines = <<>> THEN matches
    ELSE IF Contains(to_lowercase(Head(lines)), to_lowercase(query))
         THEN search_ci_loop(query, Tail(lines), Append(matches, Head(lines)))
         ELSE search_ci_loop(query, Tail(lines), matches)

\* search_case_insensitive(query, contents)
search_case_insensitive(query, contents) ==
    search_ci_loop(query, Lines(contents), <<>>)

\* ------------------------------------------------------------------------
\* The process environment and the file system, as the program sees them

\* the variable Config::build reads
MG_IGNORE_CASE == "MG_IGNORE_CASE"

\* the names of the variables of the process environment
EnvNames == {MG_IGNORE_CASE, "IGNORE_CASE"}

\* a variable that is not set
Unset == [set |-> FALSE, unicode |-> FALSE, value |-> ""]

\* what a variable can hold: nothing, the empty string, a non-empty string,
\* or bytes that are not valid Unicode
EnvValues ==
    {Unset,
     [set |-> TRUE, unicode |-> TRUE, value |-> ""],
     [set |-> TRUE, unicode |-> TRUE, value |-> "1"],
     [set |-> TRUE, unicode |-> FALSE, value |-> "0xFF"]}

\* env::var(name): Ok(value) for a variable that is set to valid Unicode,
\* Err(NotPresent) for one that is not set, Err(NotUnicode) for the rest
env_var(e, name) ==
    IF ~e[name].set THEN [ok |-> FALSE, value |-> "", err |-> "NotPresent"]
    ELSE IF ~e[name].unicode THEN [ok |-> FALSE, value |-> "", err |-> "NotUnicode"]
    ELSE [ok |-> TRUE, value |-> e[name].value, err |-> ""]

\* the ways fs::read_to_string fails
ReadErrors == {"NotFound", "PermissionDenied", "InvalidData"}

\* the contents of the files that can be read
FileTexts == {<<>>, <<"a", LF, "A">>, <<"a", "Sigma", CR, LF, "Sigma">>}

\* what fs::read_to_string can return
ReadOutcomes ==
    {[ok |-> TRUE, text |-> t, err |-> ""] : t \in FileTexts}
        \cup {[ok |-> FALSE, text |-> <<>>, err |-> k] : k \in ReadErrors}

\* ------------------------------------------------------------------------
\* Config::build and run

\* the message of the error of Config::build
NotEnoughArguments == "Args: query, filepath. Not enough arguments."

\* a Config that was not built
NoConfig == [query |-> <<>>, filepath |-> <<>>, ignore_case |-> FALSE]

\* the calls of env::var that Config::build(a) makes
build_env_reads(a) ==
    IF Len(a) < 3 THEN <<>> ELSE <<"env::var MG_IGNORE_CASE">>

\* mutant of build: exactly three arguments are rejected too
build_rejects_three(a, e) ==
    IF Len(a) <= 3
    THEN [ok |-> FALSE, err |-> NotEnoughArguments, config |-> NoConfig]
    ELSE [ok |-> TRUE, err |-> "",
          config |-> [query |-> a[2],
                      filepath |-> a[3],
                      ignore_case |-> env_var(e, MG_IGNORE_CASE).ok]]

\* Config::build(a) in the environment e
build(a, e) ==
    IF Len(a) < 3
    THEN [ok |-> FALSE, err |-> NotEnoughArguments, config |-> NoConfig]
    ELSE [ok |-> TRUE, err |-> "",
          config |-> [query |-> a[2],
                      filepath |-> a[3],
                      ignore_case |-> env_var(e, MG_IGNORE_CASE).ok]]

\* mutant of dispatch: the two branches are exchanged
dispatch_swapped(cfg) ==
    IF cfg.ignore_case THEN "search" ELSE "search_case_insensitive"

\* the function run calls for cfg
dispatch(cfg) ==
    IF cfg.ignore_case THEN "search_case_insensitive" ELSE "search"

\* what the function named f returns
apply(f, q, c) ==
    IF f = "search_case_insensitive"
    THEN search_case_insensitive(q, c)
    ELSE search(q, c)

\* mutant of after_read: a failed read counts as an empty file
after_read_default(r) ==
    [pc |-> "matching", run_result |-> [state |-> "pending", err |-> ""]]

\* run after fs::read_to_string returned r: the ? operator returns the error
\* at once, and the text goes on to the matcher
after_read(r) ==
    IF r.ok
    THEN [pc |-> "matching", run_result |-> [state |-> "pending", err |-> ""]]
    ELSE [pc |-> "returned", run_result |-> [state |-> "err", err |-> r.err]]

\* ------------------------------------------------------------------------
\* State

VARIABLES
    query,        \* the query a caller hands to the matcher
    text,         \* the contents a caller hands to the matcher
    fn,           \* the matcher function that was called, "none" before
    out,          \* what it returned
    args,         \* the arguments of the process
    env,          \* the environment of the process
    pc,           \* where the program is
    build_result, \* what Config::build returned
    config,       \* the Config that run owns
    read_result,  \* what fs::read_to_string returned to run
    results,      \* the local results of run
    stdout,       \* what was printed, one element for each println
    run_result,   \* what run returned
    events,       \* history: the calls made so far, in order
    built_env     \* history: the environment when Config::build ran

svars == <<query, text, fn, out>>

pvars == <<args, env, pc, build_result, config, read_result, results, stdout,
           run_result, events, built_env>>

vars == <<svars, pvars>>

\* the strings an argument can be
ArgStrings == {<<>>, <<"a">>, <<"Sigma">>}

\* the state before main calls Config::build
ProgramStart ==
    /\ pc = "start"
    /\ build_result = [ok |-> FALSE, err |-> "", config |-> NoConfig]
    /\ config = NoConfig
    /\ read_result = [ok |-> FALSE, text |-> <<>>, err |-> ""]
    /\ results = <<>>
    /\ stdout = <<>>
    /\ run_result = [state |-> "pending", err |-> ""]
    /\ events = <<>>
    /\ built_env = env

\* no caller of the matcher
MatcherIdle ==
    /\ query = <<>>
    /\ text = <<>>
    /\ fn = "none"
    /\ out = <<>>

\* ------------------------------------------------------------------------
\* The program: Config::build, then run

Init ==
    /\ args \in StringsUpTo(ArgStrings, MaxArgs)
    /\ env \in [EnvNames -> EnvValues]
    /\ ProgramStart
    /\ MatcherIdle

\* Config::build(&args)
Build ==
    /\ pc = "start"
    /\ build_result' = build(args, env)
    /\ config' = build(args, env).config
    /\ events' = events \o build_env_reads(args)
    /\ built_env' = env
    /\ pc' = IF build(args, env).ok THEN "built" ELSE "build_failed"
    /\ UNCHANGED <<args, env, read_result, results, stdout, run_result>>
    /\ UNCHANGED svars

\* run, line 54: fs::read_to_string(&config.filepath)?
RunRead ==
    /\ pc = "built"
    /\ \E r \in ReadOutcomes :
        /\ read_result' = r
        /\ pc' = after_read(r).pc
        /\ run_result' = after_read(r).run_result
    /\ events' = Append(events, "fs::read_to_string")
    /\ UNCHANGED <<args, env, build_result, config, results, stdout, built_env>>
    /\ UNCHANGED svars

\* mutant of RunMatch: the environment is read again for the mode
RunMatch_rereads_env ==
    /\ pc = "matching"
    /\ results' = apply(dispatch([config EXCEPT
                            !.ignore_case = env_var(env, MG_IGNORE_CASE).ok]),
                        config.query, read_result.text)
    /\ events' = Append(events, dispatch([config EXCEPT
                            !.ignore_case = env_var(env, MG_IGNORE_CASE).ok]))
    /\ pc' = "printing"
    /\ UNCHANGED <<args, env, build_result, config, read_result, stdout,
                   run_result, built_env>>
    /\ UNCHANGED svars

\* run, lines 56 to 60: the call of the matcher
RunMatch ==
    /\ pc = "matching"
    /\ results' = apply(dispatch(config), config.query, read_result.text)
    /\ events' = Append(events, dispatch(config))
    /\ pc' = "printing"
    /\ UNCHANGED <<args, env, build_result, config, read_result, stdout,
                   run_result, built_env>>
    /\ UNCHANGED svars

\* run, lines 58 or 61 and 67: println!("{:?}", results) and Ok(())
RunPrint ==
    /\ pc = "printing"
    /\ stdout' = Append(stdout, results)
    /\ events' = Append(events, "println")
    /\ run_result' = [state |-> "ok", err |-> ""]
    /\ pc' = "returned"
    /\ UNCHANGED <<args, env, build_result, config, read_result, results,
                   built_env>>
    /\ UNCHANGED svars

\* the process environment changes: a variable is set, changed or removed
SetEnv ==
    /\ \E n \in EnvNames : \E v \in EnvValues :
        /\ env[n] # v
        /\ env' = [env EXCEPT ![n] = v]
    /\ UNCHANGED <<args, pc, build_result, config, read_result, results,
                   stdout, run_result, events, built_env>>
    /\ UNCHANGED svars

Next == Build \/ RunRead \/ RunMatch \/ RunPrint \/ SetEnv

Spec == Init /\ [][Next]_vars

\* ------------------------------------------------------------------------
\* A caller of the two matcher functions

InitSearch ==
    /\ query \in StringsUpTo(QueryAlphabet, MaxQueryLen)
    /\ text \in StringsUpTo(TextAlphabet, MaxTextLen)
    /\ fn = "none"
    /\ out = <<>>
    /\ args = <<>>
    /\ env = [n \in EnvNames |-> Unset]
    /\ ProgramStart

CallSearch ==
    /\ fn = "none"
    /\ fn' = "search"
    /\ out' = search(query, text)
    /\ UNCHANGED <<query, text>>
    /\ UNCHANGED pvars

CallSearchCaseInsensitive ==
    /\ fn = "none"
    /\ fn' = "search_case_insensitive"
    /\ out' = search_case_insensitive(query, text)
    /\ UNCHANGED <<query, text>>
    /\ UNCHANGED pvars

NextSearch == CallSearch \/ CallSearchCaseInsensitive

SpecSearch == InitSearch /\ [][NextSearch]_vars

\* ------------------------------------------------------------------------
\* Vocabulary of the properties of the matcher

\* q occurs in l as a contiguous run of characters
HasSubstring(l, q) ==
    \E i \in 1..(Len(l) + 1) : \E j \in 0..Len(l) : SubSeq(l, i, j) = q

\* the letter a character stands for when case is ignored: one value for
\* each letter, whatever its case and wherever it stands
Fold(c) ==
    CASE c \in {"a", "A"} -> "a"
      [] c \in {"Sigma", "sigma", "fsigma"} -> "sigma"
      [] OTHER -> c

\* q occurs in l as a contiguous run when letters are compared ignoring case
HasSubstringIgnoringCase(l, q) ==
    \E i \in 1..(Len(l) + 1) :
        /\ i + Len(q) - 1 <= Len(l)
        /\ \A k \in 1..Len(q) : Fold(l[i + k - 1]) = Fold(q[k])

\* the elements of L at the indices I, in increasing order of index
Restrict(L, I) ==
    [k \in 1..Cardinality(I) |->
        L[CHOOSE i \in I : Cardinality({j \in I : j <= i}) = k]]

\* a can be obtained from b by deleting elements, keeping the order
RECURSIVE IsSubseq(_, _)
IsSubseq(a, b) ==
    IF a = <<>> THEN TRUE
    ELSE IF b = <<>> THEN FALSE
    ELSE IF Head(a) = Head(b) THEN IsSubseq(Tail(a), Tail(b))
    ELSE IsSubseq(a, Tail(b))

\* the positions of the line feeds of s
LFPos(s) == {i \in 1..Len(s) : s[i] = LF}

\* the position of the k-th line feed of s, 0 for k = 0
NthLF(s, k) ==
    IF k = 0 THEN 0
    ELSE CHOOSE i \in LFPos(s) : Cardinality({j \in LFPos(s) : j <= i}) = k

\* the last character of the k-th line of s: before its line feed, and before
\* the carriage return in front of that line feed; the end of s for a last
\* line with no line feed
LineEnd(s, k) ==
    IF k > Cardinality(LFPos(s)) THEN Len(s)
    ELSE IF NthLF(s, k) - 1 > NthLF(s, k - 1) /\ s[NthLF(s, k) - 1] = CR
         THEN NthLF(s, k) - 2
         ELSE NthLF(s, k) - 1

\* the lines of s by the positions of its line feeds: one line for each line
\* feed, and one more for what follows the last line feed when that is not
\* empty
ExpectedLines(s) ==
    [k \in 1..(Cardinality(LFPos(s))
                 + (IF Len(s) > 0 /\ s[Len(s)] # LF THEN 1 ELSE 0)) |->
        SubSeq(s, NthLF(s, k - 1) + 1, LineEnd(s, k))]

\* what the called function returns for another contents
Called(q, c) ==
    IF fn = "search" THEN search(q, c) ELSE search_case_insensitive(q, c)

\* ------------------------------------------------------------------------
\* Properties of the matcher, under SpecSearch

\* C1: search returns exactly the lines of contents that contain query as a
\* contiguous case-sensitive substring, in their original order, a line that
\* occurs k times being returned k times.
C1_SearchExact ==
    fn = "search" =>
        out = Restrict(Lines(text),
                       {i \in 1..Len(Lines(text)) : HasSubstring(Lines(text)[i], query)})

\* C1 witness: of the two lines "A" and "a" the query "a" returns the line
\* "a" and not the line "A".
C1_Witness ==
    /\ fn = "search"
    /\ query = <<"a">>
    /\ Len(text) = 3
    /\ Lines(text) = << <<"A">>, <<"a">> >>
    /\ out = << <<"a">> >>

\* C2: search_case_insensitive returns exactly the lines of contents that
\* contain query when letters are compared ignoring case, in their original
\* order and in their original form.
C2_CaseInsensitiveExact ==
    fn = "search_case_insensitive" =>
        out = Restrict(Lines(text),
                       {i \in 1..Len(Lines(text)) :
                            HasSubstringIgnoringCase(Lines(text)[i], query)})

\* C7: both functions return a sequence for every input; with an empty query
\* it is every line of contents; when no line matches under the function's
\* comparison it is empty; for empty contents it is empty.
C7_Total ==
    fn # "none" =>
        /\ out \in Seq(StringsUpTo(TextAlphabet, MaxTextLen))
        /\ query = <<>> => out = Lines(text)
        /\ text = <<>> => out = <<>>
        /\ (fn = "search"
              /\ \A i \in 1..Len(Lines(text)) : ~HasSubstring(Lines(text)[i], query))
           => out = <<>>
        /\ (fn = "search_case_insensitive"
              /\ \A i \in 1..Len(Lines(text)) :
                    ~HasSubstring(to_lowercase(Lines(text)[i]), to_lowercase(query)))
           => out = <<>>

\* C7 witness: an empty query on contents of two lines returns both.
C7_Witness ==
    /\ fn = "search_case_insensitive"
    /\ query = <<>>
    /\ text = <<"A", LF, "a">>
    /\ out = << <<"A">>, <<"a">> >>

\* C8: both functions split contents by one rule: a line ends at a line feed,
\* what follows the last line feed is a line when it is not empty, a line
\* feed at the end adds no empty line, and a carriage return right before a
\* line feed belongs to the terminator, not to the line.
C8_LineRule ==
    fn # "none" =>
        /\ IsSubseq(out, ExpectedLines(text))
        /\ query = <<>> => out = ExpectedLines(text)
        /\ \A i \in 1..Len(out) : \A j \in 1..Len(out[i]) : out[i][j] # LF
        /\ (text # <<>> /\ text[Len(text)] # LF)
           => Len(Called(<<>>, text \o <<LF>>)) = Len(Called(<<>>, text))
        /\ (text # <<>> /\ text[Len(text)] \notin {LF, CR})
           => Called(query, text \o <<LF>>) = out
        /\ (query = <<CR>>
              /\ \A i \in 1..Len(text) :
                    text[i] = CR => (i < Len(text) /\ text[i + 1] = LF))
           => out = <<>>

\* C8 witness: the line of "a" CR LF is returned as "a", without the CR.
C8_Witness ==
    /\ fn = "search"
    /\ query = <<"a">>
    /\ text = <<"a", CR, LF>>
    /\ out = << <<"a">> >>

\* C10: what search returns is an order-preserving sub-sequence of what
\* search_case_insensitive returns for the same query and contents, which is
\* an order-preserving sub-sequence of the lines of contents.
C10_CaseInsensitiveAtLeastAsPermissive ==
    fn # "none" =>
        /\ IsSubseq(search(query, text), search_case_insensitive(query, text))
        /\ IsSubseq(search_case_insensitive(query, text), Lines(text))

\* ------------------------------------------------------------------------
\* Vocabulary of the properties of the program

\* Config::build has returned a Config
BuiltOk == pc \in {"built", "matching", "printing", "returned"}

\* the calls of run so far, without the calls of Config::build
RunEvents == SelectSeq(events, LAMBDA e : e # "env::var MG_IGNORE_CASE")

\* how many times e was called
Count(e) == Cardinality({i \in 1..Len(events) : events[i] = e})

\* a is a prefix of b
IsPrefix(a, b) == Len(a) <= Len(b) /\ SubSeq(b, 1, Len(a)) = a

\* the environment leaves the variable MG_IGNORE_CASE out
Absent(e) == ~e[MG_IGNORE_CASE].set

\* ------------------------------------------------------------------------
\* Properties of the program, under Spec

\* C3: Config::build returns the error with its one message if and only if
\* args has fewer than 3 elements; for 3 elements or more it returns a Config
\* whose query is args[1] and whose filepath is args[2] of the source,
\* whatever they hold and whatever follows them.
C3_BuildArgs ==
    pc # "start" =>
        /\ Len(args) < 3 <=> ~build_result.ok
        /\ ~build_result.ok =>
              /\ build_result.err = NotEnoughArguments
              /\ pc = "build_failed"
        /\ build_result.ok =>
              /\ build_result.config.query = args[2]
              /\ build_result.config.filepath = args[3]
              /\ config = build_result.config

\* C3 witness: four arguments, an empty query and a filepath that differs
\* from the fourth argument.
C3_Witness ==
    /\ pc = "built"
    /\ Len(args) = 4
    /\ args[2] = <<>>
    /\ args[3] # args[4]
    /\ config.query = <<>>
    /\ config.filepath = args[3]

\* C4: after a successful Config::build, ignore_case is true if the
\* environment held MG_IGNORE_CASE with any value at all, and false if and
\* only if it did not hold it.
C4_IgnoreCaseIffPresent ==
    BuiltOk => (config.ignore_case <=> ~Absent(built_env))

\* C5: when the read of run fails, run returns an error that carries the
\* cause, after one read, no call of a search function and no output.
C5_ReadFailure ==
    (Count("fs::read_to_string") > 0 /\ ~read_result.ok) =>
        /\ pc = "returned"
        /\ run_result = [state |-> "err", err |-> read_result.err]
        /\ read_result.err \in ReadErrors
        /\ RunEvents = <<"fs::read_to_string">>
        /\ results = <<>>
        /\ stdout = <<>>

\* C5 witness: the file is there and is not valid text.
C5_Witness ==
    /\ pc = "returned"
    /\ run_result = [state |-> "err", err |-> "InvalidData"]
    /\ stdout = <<>>

\* C6: when the read of run succeeds, run prints one sequence and returns
\* success; the sequence is search(query, contents) when ignore_case is false
\* and search_case_insensitive(query, contents) when it is true; the read
\* comes before the match and the match before the output.
C6_RunSuccess ==
    /\ IsPrefix(RunEvents, <<"fs::read_to_string", dispatch(config), "println">>)
    /\ stdout # <<>> => pc = "returned"
    /\ (pc \in {"matching", "printing"}) =>
          /\ read_result.ok
          /\ run_result.state = "pending"
    /\ (pc = "returned" /\ read_result.ok) =>
          /\ RunEvents = <<"fs::read_to_string", dispatch(config), "println">>
          /\ run_result = [state |-> "ok", err |-> ""]
          /\ stdout = <<IF config.ignore_case
                        THEN search_case_insensitive(config.query, read_result.text)
                        ELSE search(config.query, read_result.text)>>

\* C6 witness: a case-insensitive run that matches no line prints the empty
\* sequence and returns success.
C6_Witness ==
    /\ pc = "returned"
    /\ config.ignore_case
    /\ read_result.ok
    /\ read_result.text # <<>>
    /\ stdout = << <<>> >>
    /\ run_result.state = "ok"

\* C9: MG_IGNORE_CASE is read once, by Config::build and only after the
\* count of the arguments passed; the Config stays as built; so the function
\* run calls is the one the environment of the build decides, whatever the
\* environment holds later.
C9_ModeFixedAtBuild ==
    /\ Count("env::var MG_IGNORE_CASE") <= 1
    /\ pc \in {"start", "build_failed"} => Count("env::var MG_IGNORE_CASE") = 0
    /\ BuiltOk =>
          /\ events[1] = "env::var MG_IGNORE_CASE"
          /\ config = build(args, built_env).config
    /\ \A i \in 1..Len(events) :
          /\ events[i] = "search_case_insensitive"
                => env_var(built_env, MG_IGNORE_CASE).ok
          /\ events[i] = "search"
                => ~env_var(built_env, MG_IGNORE_CASE).ok

\* C9 witness: run has called search_case_insensitive although
\* MG_IGNORE_CASE was removed after the build.
C9_Witness ==
    /\ pc = "returned"
    /\ Count("search_case_insensitive") = 1
    /\ Absent(env)
    /\ ~Absent(built_env)

=============================================================================
